---- MODULE Spec2Model ----
(***************************************************************************)
(* Model of the Neuron Conversation Engine (nce): the BrainGraph, the      *)
(* spreading-activation stages of NCEEngine, response selection, and the   *)
(* two memories (ShortTermMemory, EpisodicMemory).                         *)
(*                                                                         *)
(* Numbers.  Python floats are modelled in fixed point:                    *)
(*   activations, deltas, scores : integers in units of 1/ONE (1e-5)       *)
(*   edge weights, decay         : integers in units of 1/WUNIT (tenths)   *)
(*   modulator values            : integers in units of 1/MUNIT (tenths)   *)
(* Every assignment of the code is one fixed-point operation: its product  *)
(* is divided once, truncating toward zero.                                *)
(***************************************************************************)
EXTENDS Integers, Sequences, FiniteSets, TLC

VARIABLES
    nodes,        \* BrainGraph.nodes: dict id -> Node, as a sequence in insertion order
    edges,        \* BrainGraph.edges
    adjacency,    \* BrainGraph.adjacency: source id -> sequence of edges
    responses,    \* BrainGraph.responses
    _capacity,    \* ShortTermMemory._capacity
    _buffer,      \* ShortTermMemory._buffer (deque, oldest first)
    _max,         \* EpisodicMemory._max
    _episodes,    \* EpisodicMemory._episodes
    modulators,   \* NCEEngine.modulators
    profiler,     \* Profiler counters
    trace,        \* the ThoughtTrace handed to the stages
    pc,           \* position in the pipeline / which operation ran last
    concept_ids,  \* the recognized concept ids handed to inject_activation
    steps,        \* spread_activation: parameter steps
    decay,        \* spread_activation: parameter decay
    step,         \* spread_activation: loop variable (next step index to run)
    mod_factor,   \* spread_activation: local mod_factor
    updates,      \* spread_activation: local updates of the last step run
    start,        \* history: activations at the start of the last step run
    deltas,       \* history: the value of local delta for every edge visited in the last step
    touched,      \* history: ids that had a delta applied in some step of this call
    ret,          \* the value returned by the last query operation
    arg,          \* the argument of the last query operation
    added,        \* history: every entry handed to add_turn, in call order
    stored,       \* history: every episode handed to store_episode, in call order
    _turn,        \* NCEEngine._turn
    calls         \* history: every add_node / add_edge call on the graph, in call order

gvars == <<nodes, edges, adjacency, responses>>
mvars == <<_capacity, _buffer, _max, _episodes, added, stored>>
svars == <<steps, decay, step, mod_factor, updates, start, deltas, touched>>
bvars == <<_turn, calls>>
vars  == <<nodes, edges, adjacency, responses, _capacity, _buffer, _max, _episodes,
           modulators, profiler, trace, pc, concept_ids, steps, decay, step,
           mod_factor, updates, start, deltas, touched, ret, arg, added, stored,
           _turn, calls>>

----------------------------------------------------------------------------
(* Fixed-point units and program constants *)

\* 1.0 as an activation (engine.py: node.activation = 1.0)
ONE == 100000
\* NCEEngine.ACTIVATION_THRESHOLD = 0.05
ACTIVATION_THRESHOLD == 5000
\* the priming boost 0.3 of inject_activation
PRIMING_BOOST == 30000
\* 1.0 as an edge weight or a decay (Edge.weight is a float; model: tenths)
WUNIT == 10
\* 1.0 as a modulator value (model: tenths)
MUNIT == 10
\* the 0.5 of the inhibitory delta, in units of 1/WUNIT
INHIBIT_HALF == 5
\* priority * 0.01, as a score in units of 1/ONE
PRIORITY_WEIGHT == 1000
\* best_score = -1.0
INITIAL_BEST == -100000

None == "None"

Abs(x) == IF x < 0 THEN -x ELSE x
Min2(a, b) == IF a <= b THEN a ELSE b
Max2(a, b) == IF a >= b THEN a ELSE b

\* division of a fixed-point product, truncating toward zero (b > 0)
TruncDiv(a, b) == IF a >= 0 THEN a \div b ELSE -((-a) \div b)

RECURSIVE Pow(_, _)
Pow(b, e) == IF e = 0 THEN 1 ELSE b * Pow(b, e - 1)

\* round(x, 4): x in units of 1e-5, result in units of 1e-4, ties to even
Round4(x) ==
    LET m == Abs(x)
        q == m \div 10
        r == m % 10
        up == IF r > 5 \/ (r = 5 /\ q % 2 = 1) THEN q + 1 ELSE q
    IN  IF x < 0 THEN -up ELSE up

\* round(weight, 4): weights are tenths, result in units of 1e-4
RoundWeight4(w) == w * 1000

----------------------------------------------------------------------------
(* BrainGraph *)

\* a node as BrainParser._parse_node builds it from the line "id | base_activation:base"
Node(id, base) ==
    [id |-> id, type |-> "concept", label |-> id, base_activation |-> base,
     activation |-> base]
Edge(s, t, w, ty) == [source |-> s, target |-> t, weight |-> w, edge_type |-> ty]
ResponseRule(id, trig, intent, prio) ==
    [id |-> id, trigger_concepts |-> trig, intent |-> intent, priority |-> prio]

NodeIdsOf(ns) == {ns[i].id : i \in DOMAIN ns}

\* position of id in the node dict, 0 when absent
NodeIndex(ns, id) ==
    IF id \in NodeIdsOf(ns) THEN CHOOSE i \in DOMAIN ns : ns[i].id = id ELSE 0

\* BrainGraph.get_node: the node, or None (test with Resolves before use)
get_node(ns, id) == IF NodeIndex(ns, id) = 0 THEN None ELSE ns[NodeIndex(ns, id)]

\* "if node:" / "target is None" on the result of get_node
Resolves(ns, id) == NodeIndex(ns, id) # 0

\* BrainGraph.get_edges_from
get_edges_from(adj, id) == IF id \in DOMAIN adj THEN adj[id] ELSE <<>>

\* BrainGraph.get_neighbors
get_neighbors(adj, id) ==
    [i \in DOMAIN get_edges_from(adj, id) |-> get_edges_from(adj, id)[i].target]

\* activation of id, as select_response reads it (0.0 for an unresolved id)
ActivationOf(ns, id) == IF Resolves(ns, id) THEN get_node(ns, id).activation ELSE 0

\* dict.setdefault(key, [])
SetDefault(adj, key) ==
    IF key \in DOMAIN adj THEN adj
    ELSE [k \in DOMAIN adj \cup {key} |-> IF k = key THEN <<>> ELSE adj[k]]

\* variant of add_node: the adjacency list of the id is started afresh
add_node_fresh_list(g, node) ==
    [g EXCEPT
       !.nodes = IF NodeIndex(g.nodes, node.id) = 0
                 THEN Append(g.nodes, node)
                 ELSE [g.nodes EXCEPT ![NodeIndex(g.nodes, node.id)] = node],
       !.adjacency = [k \in DOMAIN g.adjacency \cup {node.id} |->
                         IF k = node.id THEN <<>> ELSE g.adjacency[k]]]

\* variant of add_node: a node already stored under the id is kept
add_node_keep(g, node) ==
    [g EXCEPT
       !.nodes = IF NodeIndex(g.nodes, node.id) = 0 THEN Append(g.nodes, node) ELSE @,
       !.adjacency = SetDefault(g.adjacency, node.id)]

\* BrainGraph.add_node on a graph value [nodes, edges, adjacency]
add_node(g, node) ==
    [g EXCEPT
       !.nodes = IF NodeIndex(g.nodes, node.id) = 0
                 THEN Append(g.nodes, node)
                 ELSE [g.nodes EXCEPT ![NodeIndex(g.nodes, node.id)] = node],
       !.adjacency = SetDefault(g.adjacency, node.id)]

\* BrainGraph.add_edge
add_edge(g, edge) ==
    [g EXCEPT
       !.edges = Append(g.edges, edge),
       !.adjacency = [SetDefault(g.adjacency, edge.source) EXCEPT
                         ![edge.source] = Append(@, edge)]]

\* one call on the graph under construction
Call(op, item) == [op |-> op, item |-> item]

\* BrainGraph.__init__
EmptyGraph == [nodes |-> <<>>, edges |-> <<>>, adjacency |-> <<>>]

\* BrainParser.parse for a file with a nodes section followed by an edges section
RECURSIVE LoadNodes(_, _)
LoadNodes(g, ns) ==
    IF ns = <<>> THEN g ELSE LoadNodes(add_node(g, Head(ns)), Tail(ns))

RECURSIVE LoadEdges(_, _)
LoadEdges(g, es) ==
    IF es = <<>> THEN g ELSE LoadEdges(add_edge(g, Head(es)), Tail(es))

parse(ns, es) == LoadEdges(LoadNodes(EmptyGraph, ns), es)

\* the calls parse(ns, es) makes on the graph
ParseCalls(ns, es) ==
    [i \in 1..(Len(ns) + Len(es)) |->
        IF i <= Len(ns) THEN Call("add_node", ns[i])
        ELSE Call("add_edge", es[i - Len(ns)])]

\* variant of reset_activations: the activations are left as they are
keep_activations(ns) == ns

\* BrainGraph.reset_activations
reset_activations(ns) ==
    [i \in DOMAIN ns |-> [ns[i] EXCEPT !.activation = ns[i].base_activation]]

----------------------------------------------------------------------------
(* ShortTermMemory queries used by the engine *)

STMEntry(t, text, cids, resp) ==
    [turn_number |-> t, input_text |-> text, active_concepts |-> cids,
     response_text |-> resp]

SeqToSet(s) == {s[i] : i \in DOMAIN s}

\* ShortTermMemory.get_primed_concepts
RECURSIVE PrimedFrom(_, _)
PrimedFrom(buf, primed) ==
    IF buf = <<>> THEN primed
    ELSE PrimedFrom(Tail(buf), primed \cup SeqToSet(Head(buf).active_concepts))

\* variant of get_primed_concepts: the concepts of the latest turn only
get_primed_latest(buf) ==
    IF buf = <<>> THEN {} ELSE SeqToSet(buf[Len(buf)].active_concepts)

get_primed_concepts(buf) == PrimedFrom(buf, {})

----------------------------------------------------------------------------
(* NCEEngine.inject_activation *)

\* variant of SeedLoop: a recognized id that is no node becomes one
RECURSIVE SeedLoopCreating(_, _)
SeedLoopCreating(st, cids) ==
    IF cids = <<>> THEN st
    ELSE LET cid == Head(cids)
             i == NodeIndex(st.nodes, cid)
         IN  IF i = 0
             THEN SeedLoopCreating(
                      [st EXCEPT !.nodes = Append(@, [Node(cid, 0) EXCEPT !.activation = ONE]),
                                 !.activated_nodes = @ + 1], Tail(cids))
             ELSE SeedLoopCreating([st EXCEPT !.nodes[i].activation = ONE,
                                              !.activated_nodes = @ + 1], Tail(cids))

\* for cid in concept_ids: seed to 1.0 and count it
RECURSIVE SeedLoop(_, _)
SeedLoop(st, cids) ==
    IF cids = <<>> THEN st
    ELSE LET cid == Head(cids)
             i == NodeIndex(st.nodes, cid)
         IN  IF i = 0 THEN SeedLoop(st, Tail(cids))
             ELSE SeedLoop([st EXCEPT !.nodes[i].activation = ONE,
                                      !.activated_nodes = @ + 1], Tail(cids))

\* variant of PrimedActivation: the boost without the cap
PrimedActivationNoClamp(a) == a + PRIMING_BOOST

\* min(1.0, node.activation + 0.3)
PrimedActivation(a) == Min2(ONE, a + PRIMING_BOOST)

\* the orders in which a for loop may iterate over the set S
Orders(S) ==
    {q \in [1..Cardinality(S) -> S] :
        \A i, j \in 1..Cardinality(S) : i # j => q[i] # q[j]}

\* body of "for pid in primed": boost a resolved node whose activation is below 1.0
PrimeStep(ns, pid) ==
    LET i == NodeIndex(ns, pid)
    IN  IF i # 0 /\ ns[i].activation < ONE
        THEN [ns EXCEPT ![i].activation = PrimedActivation(ns[i].activation)]
        ELSE ns

\* variant of PrimeLoop: the loop ends after the first boost
RECURSIVE PrimeLoopBreak(_, _)
PrimeLoopBreak(ns, order) ==
    IF order = <<>> THEN ns
    ELSE IF PrimeStep(ns, Head(order)) # ns THEN PrimeStep(ns, Head(order))
    ELSE PrimeLoopBreak(ns, Tail(order))

\* for pid in primed, the set iterated in the given order
RECURSIVE PrimeLoop(_, _)
PrimeLoop(ns, order) ==
    IF order = <<>> THEN ns ELSE PrimeLoop(PrimeStep(ns, Head(order)), Tail(order))

\* result: [nodes, activated_nodes]; order is the iteration order of
\* stm.get_primed_concepts()
inject_activation(ns, cids, order, activated) ==
    LET seeded == SeedLoop([nodes |-> ns, activated_nodes |-> activated], cids)
    IN  [seeded EXCEPT !.nodes = PrimeLoop(seeded.nodes, order)]

----------------------------------------------------------------------------
(* NCEEngine.spread_activation *)

\* mod_factor = product of modulators.values(): [num, den] with value num/den
RECURSIVE ModProduct(_, _)
ModProduct(mods, keys) ==
    IF keys = {} THEN [num |-> 1, den |-> 1]
    ELSE LET k == CHOOSE x \in keys : TRUE
             rest == ModProduct(mods, keys \ {k})
         IN  [num |-> rest.num * mods[k], den |-> rest.den * MUNIT]

ModFactor(mods) == ModProduct(mods, DOMAIN mods)

\* variant of DecayFactor: the first step already decayed
DecayFactorOffByOne(dec, s) == [num |-> Pow(dec, s + 1), den |-> Pow(WUNIT, s + 1)]

\* decay_factor = decay ** step: [num, den]
DecayFactor(dec, s) == [num |-> Pow(dec, s), den |-> Pow(WUNIT, s)]

\* variant of Modulate: the delta is left unscaled
ModulateNone(delta, mf) == delta

\* delta *= mod_factor
Modulate(delta, mf) == TruncDiv(delta * mf.num, mf.den)

\* delta = node.activation * edge.weight * decay_factor, then delta *= mod_factor
ExcitatoryDelta(act, w, df, mf) ==
    Modulate(TruncDiv(act * w * df.num, WUNIT * df.den), mf)

\* variant of InhibitoryDelta: the inhibitory delta scaled by decay_factor too
InhibitoryDeltaDecayed(act, w, df, mf) ==
    Modulate(TruncDiv(-(act * Abs(w) * INHIBIT_HALF * df.num),
                      WUNIT * WUNIT * df.den), mf)

\* delta = -(node.activation * abs(edge.weight) * 0.5), then delta *= mod_factor
InhibitoryDelta(act, w, df, mf) ==
    Modulate(TruncDiv(-(act * Abs(w) * INHIBIT_HALF), WUNIT * WUNIT), mf)

EdgeDelta(act, edge, df, mf) ==
    IF edge.edge_type = "excitatory"
    THEN ExcitatoryDelta(act, edge.weight, df, mf)
    ELSE InhibitoryDelta(act, edge.weight, df, mf)

\* updates.get(key, 0.0) + delta
Accumulate(upd, key, delta) ==
    IF key \in DOMAIN upd THEN [upd EXCEPT ![key] = @ + delta]
    ELSE [k \in DOMAIN upd \cup {key} |-> IF k = key THEN delta ELSE upd[k]]

\* variant of Clamp: the sum stored as it is
ClampNone(x) == x

\* max(0.0, min(1.0, x))
Clamp(x) == Max2(0, Min2(ONE, x))

\* The scan state st: the graph's nodes as the scan sees them, the local
\* updates, the trace, the edge counter, and the log of deltas.

\* variant of VisitEdge: the delta written to the target at once
VisitEdgeEager(st, src, edge, s, df, mf) ==
    IF ~Resolves(st.nodes, edge.target) THEN st
    ELSE LET d == EdgeDelta(ActivationOf(st.nodes, src), edge, df, mf)
             t == NodeIndex(st.nodes, edge.target)
         IN  [st EXCEPT
                !.traversed_edges = @ + 1,
                !.trace.edge_traversals =
                    Append(@, <<s, edge.source, edge.target, RoundWeight4(edge.weight)>>),
                !.nodes[t].activation = Clamp(@ + d),
                !.deltas = Append(@, [source |-> src, edge |-> edge, delta |-> d])]

\* variant of VisitEdge: the edge is counted and recorded before its target
\* is looked up
VisitEdgeCountsFirst(st, src, edge, s, df, mf) ==
    LET seen == [st EXCEPT
                   !.traversed_edges = @ + 1,
                   !.trace.edge_traversals =
                       Append(@, <<s, edge.source, edge.target,
                                   RoundWeight4(edge.weight)>>)]
    IN  IF ~Resolves(st.nodes, edge.target) THEN seen
        ELSE LET d == EdgeDelta(ActivationOf(st.nodes, src), edge, df, mf)
             IN  [seen EXCEPT
                    !.updates = Accumulate(@, edge.target, d),
                    !.deltas = Append(@, [source |-> src, edge |-> edge, delta |-> d])]

\* body of "for edge in get_edges_from(node.id)" (lines 118-133); the graph
\* is not written during the scan
VisitEdge(st, src, edge, s, df, mf) ==
    IF ~Resolves(st.nodes, edge.target) THEN st
    ELSE LET d == EdgeDelta(ActivationOf(st.nodes, src), edge, df, mf)
         IN  [st EXCEPT
                !.traversed_edges = @ + 1,
                !.trace.edge_traversals =
                    Append(@, <<s, edge.source, edge.target, RoundWeight4(edge.weight)>>),
                !.updates = Accumulate(@, edge.target, d),
                !.deltas = Append(@, [source |-> src, edge |-> edge, delta |-> d])]

RECURSIVE VisitEdges(_, _, _, _, _, _)
VisitEdges(st, src, es, s, df, mf) ==
    IF es = <<>> THEN st
    ELSE VisitEdges(VisitEdge(st, src, Head(es), s, df, mf), src, Tail(es), s, df, mf)

\* variant of Emits: a node at the threshold emits
EmitsAtOrAbove(a) == a >= ACTIVATION_THRESHOLD

\* not (node.activation <= ACTIVATION_THRESHOLD)
Emits(a) == a > ACTIVATION_THRESHOLD

\* body of "for node in self.graph.nodes.values()" (lines 111-133)
VisitNode(st, adj, i, s, df, mf) ==
    LET node == st.nodes[i]
    IN  IF ~Emits(node.activation) THEN st
        ELSE VisitEdges(
                 [st EXCEPT !.trace.node_activations =
                                Append(@, <<s, node.id, Round4(node.activation)>>)],
                 node.id, get_edges_from(adj, node.id), s, df, mf)

RECURSIVE VisitNodes(_, _, _, _, _, _)
VisitNodes(st, adj, i, s, df, mf) ==
    IF i > Len(st.nodes) THEN st
    ELSE VisitNodes(VisitNode(st, adj, i, s, df, mf), adj, i + 1, s, df, mf)

\* "for nid, delta in updates.items()" (lines 136-139)
ApplyUpdates(ns, upd) ==
    [i \in DOMAIN ns |->
        IF ns[i].id \in DOMAIN upd
        THEN [ns[i] EXCEPT !.activation = Clamp(@ + upd[ns[i].id])]
        ELSE ns[i]]

\* one iteration of "for step in range(steps)": [nodes, updates, trace,
\* traversed_edges, deltas]
SpreadIteration(ns, adj, tr, traversed, s, dec, mf) ==
    LET scan == VisitNodes([nodes |-> ns, updates |-> <<>>, trace |-> tr,
                            traversed_edges |-> traversed, deltas |-> <<>>],
                           adj, 1, s, DecayFactor(dec, s), mf)
    IN  [scan EXCEPT !.nodes = ApplyUpdates(scan.nodes, scan.updates)]

\* ThoughtTrace()
NewTrace == [node_activations |-> <<>>, edge_traversals |-> <<>>,
             final_concepts |-> <<>>, response_intent |-> ""]

\* Profiler.__init__ counters
NewProfiler == [activated_nodes |-> 0, traversed_edges |-> 0, steps_executed |-> 0]

\* variant of Profiler_reset: the counters run on
Profiler_keep(prof) == prof

\* Profiler.reset
Profiler_reset(prof) ==
    [prof EXCEPT !.activated_nodes = 0, !.traversed_edges = 0, !.steps_executed = 0]

ActivationMap(ns) == [id \in NodeIdsOf(ns) |-> ActivationOf(ns, id)]

----------------------------------------------------------------------------
(* The graphs, memories and modulator tables the stages are run on *)

\* most edges of a loaded graph
MaxEdges == 2
\* most spreading steps asked of spread_activation
MaxSteps == 3
\* most concept ids handed to inject_activation
MaxConcepts == 2

\* an id that is never a node: a dangling reference
Ghost == "ghost"

\* base activations per layout position: rest values at, around and outside
\* the threshold and the range [0, 1]
BaseProfiles == {<<0, 0>>, <<0, 80000>>, <<6000, 5000>>, <<150000, 0>>,
                 <<0, -20000>>}

\* the edges a graph over source x and target y may hold, in file order
EdgePool(x, y) ==
    << Edge(x, y, 9, "excitatory"),
       Edge(y, x, 9, "excitatory"),
       Edge(x, x, 5, "excitatory"),
       Edge(x, y, 4, "inhibitory"),
       Edge(y, x, -4, "inhibitory"),
       Edge(y, Ghost, 5, "excitatory") >>

\* the subsequence of s at the positions in keep
RECURSIVE SubSeqAt(_, _, _)
SubSeqAt(s, keep, i) ==
    IF i > Len(s) THEN <<>>
    ELSE (IF i \in keep THEN <<s[i]>> ELSE <<>>) \o SubSeqAt(s, keep, i + 1)

PoolOf(ns) == EdgePool(ns[1].id, ns[2].id)

\* the edge sections that may follow the node section ns: at most MaxEdges
\* edges of the pool, in pool order
EdgeLists(ns) ==
    {SubSeqAt(PoolOf(ns), keep, 1) :
        keep \in {k \in SUBSET DOMAIN PoolOf(ns) : Cardinality(k) <= MaxEdges}}

NodeLines(layout, bases) == [i \in DOMAIN layout |-> Node(layout[i], bases[i])]

\* the node sections loaded: hello and greeting at every profile of rest
\* values, fear and calm at rest 0
NodeFiles ==
    {NodeLines(<<"hello", "greeting">>, bases) : bases \in BaseProfiles}
    \cup {NodeLines(<<"fear", "calm">>, <<0, 0>>)}

\* the modulator tables: the default of NCEEngine.__init__, an amplifying
\* table and a table whose product is 0
ModulatorTables ==
    { [curiosity |-> 10, urgency |-> 10],
      [curiosity |-> 20, urgency |-> 15],
      [curiosity |-> 0,  urgency |-> 10] }

\* short-term memories: empty, or one earlier turn
Buffers == { <<>>, <<STMEntry(1, "t1", <<"greeting", "calm", Ghost>>, "r1")>> }

\* the tables and memories the stages are run with
Contexts ==
    {[mods |-> m, buf |-> <<>>] : m \in ModulatorTables}
    \cup {[mods |-> [curiosity |-> 10, urgency |-> 10], buf |-> b] : b \in Buffers}

\* sequences of distinct ids of length at most n
DistinctSeqs(S, n) ==
    UNION {{q \in [1..k -> S] : \A i, j \in 1..k : i # j => q[i] # q[j]} : k \in 0..n}

DecayValues == {8, 5}

----------------------------------------------------------------------------
(* Spec: the stages of a turn, run in pipeline order on a loaded graph *)

InitMemory ==
    /\ _capacity = 5
    /\ _buffer = <<>>
    /\ _max = 100
    /\ _episodes = <<>>
    /\ added = <<>>
    /\ stored = <<>>

InitSpread ==
    /\ steps = 0
    /\ decay = 0
    /\ step = 0
    /\ mod_factor = [num |-> 1, den |-> 1]
    /\ updates = <<>>
    /\ start = <<>>
    /\ deltas = <<>>
    /\ touched = {}

Init ==
    /\ \E ns \in NodeFiles, ctx \in Contexts :
         \E es \in EdgeLists(ns) :
           LET g == parse(ns, es)
           IN  /\ nodes = g.nodes
               /\ edges = g.edges
               /\ adjacency = g.adjacency
               /\ modulators = ctx.mods
               /\ _buffer = ctx.buf
               /\ calls = ParseCalls(ns, es)
    /\ responses = <<>>
    /\ _turn = 0
    /\ _capacity = 5
    /\ _max = 100
    /\ _episodes = <<>>
    /\ added = _buffer
    /\ stored = <<>>
    /\ profiler = NewProfiler
    /\ trace = NewTrace
    /\ pc = "loaded"
    /\ concept_ids = <<>>
    /\ InitSpread
    /\ ret = None
    /\ arg = None

\* graph.reset_activations()
ResetActivations ==
    /\ pc = "loaded"
    /\ nodes' = reset_activations(nodes)
    /\ pc' = "reset"
    /\ UNCHANGED <<bvars, edges, adjacency, responses, mvars, modulators, profiler, trace,
                   concept_ids, svars, ret, arg>>

\* engine.inject_activation(cids)
InjectActivation ==
    /\ pc = "reset"
    /\ \E cids \in DistinctSeqs(NodeIdsOf(nodes) \cup {Ghost}, MaxConcepts),
          order \in Orders(get_primed_concepts(_buffer)) :
         LET r == inject_activation(nodes, cids, order, profiler.activated_nodes)
         IN  /\ nodes' = r.nodes
             /\ profiler' = [profiler EXCEPT !.activated_nodes = r.activated_nodes]
             /\ concept_ids' = cids
    /\ pc' = "seeded"
    /\ UNCHANGED <<bvars, edges, adjacency, responses, mvars, modulators, trace, svars, ret, arg>>

\* engine.spread_activation(ThoughtTrace(), n, d): lines 96-101, up to the
\* loop; with n = 0 the loop body never runs and the call is over
SpreadBegin ==
    /\ pc = "seeded"
    /\ \E n \in 0..MaxSteps, d \in DecayValues :
         /\ steps' = n
         /\ decay' = d
         /\ pc' = IF n = 0 THEN "spread_done" ELSE "spread"
    /\ step' = 0
    /\ mod_factor' = ModFactor(modulators)
    /\ trace' = NewTrace
    /\ UNCHANGED <<bvars, gvars, mvars, modulators, profiler, concept_ids, updates, start,
                   deltas, touched, ret, arg>>

\* one iteration of the loop of spread_activation: lines 103-141; the call
\* is over after the last one
SpreadStep ==
    /\ pc = "spread"
    /\ step < steps
    /\ LET r == SpreadIteration(nodes, adjacency, trace, profiler.traversed_edges,
                                step, decay, mod_factor)
       IN  /\ nodes' = r.nodes
           /\ trace' = r.trace
           /\ profiler' = [profiler EXCEPT !.traversed_edges = r.traversed_edges,
                                           !.steps_executed = @ + 1]
           /\ updates' = r.updates
           /\ deltas' = r.deltas
           /\ touched' = touched \cup (DOMAIN r.updates \cap NodeIdsOf(nodes))
    /\ start' = ActivationMap(nodes)
    /\ step' = step + 1
    /\ pc' = IF step + 1 = steps THEN "spread_done" ELSE "spread"
    /\ UNCHANGED <<bvars, edges, adjacency, responses, mvars, modulators, concept_ids,
                   steps, decay, mod_factor, ret, arg>>

Next == ResetActivations \/ InjectActivation \/ SpreadBegin \/ SpreadStep

Spec == Init /\ [][Next]_vars

----------------------------------------------------------------------------
(* NCEEngine.select_response *)

RECURSIVE SumActivations(_, _)
SumActivations(ns, trig) ==
    IF trig = <<>> THEN 0
    ELSE ActivationOf(ns, Head(trig)) + SumActivations(ns, Tail(trig))

\* score = sum of the trigger activations, then score += rule.priority * 0.01
RuleScore(ns, rule) ==
    SumActivations(ns, rule.trigger_concepts) + rule.priority * PRIORITY_WEIGHT

\* variant of Improves: a later rule replaces the best on a tie
ImprovesOrTies(score, best) == score >= best

\* score > best_score
Improves(score, best) == score > best

\* the loop over self.graph.responses: [rule (index, 0 for None), score]
RECURSIVE BestRule(_, _, _, _)
BestRule(ns, rules, i, best) ==
    IF i > Len(rules) THEN best
    ELSE LET score == RuleScore(ns, rules[i])
         IN  IF Improves(score, best.score)
             THEN BestRule(ns, rules, i + 1, [rule |-> i, score |-> score])
             ELSE BestRule(ns, rules, i + 1, best)

\* variant of NothingFires: a best score at the threshold does not fire
NothingFiresAtThreshold(best) == best.rule = 0 \/ best.score <= ACTIVATION_THRESHOLD

\* best_rule is None or best_score < self.ACTIVATION_THRESHOLD
NothingFires(best) == best.rule = 0 \/ best.score < ACTIVATION_THRESHOLD

FallbackRule == ResponseRule("r_fallback", <<>>, "unknown", 0)

\* the rule select_response returns
select_response(ns, rules) ==
    LET best == BestRule(ns, rules, 1, [rule |-> 0, score |-> INITIAL_BEST])
    IN  IF NothingFires(best) THEN FallbackRule ELSE rules[best.rule]

----------------------------------------------------------------------------
(* SpecSelect: response rules are registered on a loaded graph, the graph is
   seeded, and a response is selected *)

\* most response rules registered
MaxRules == 3

\* rest activations of hello and greeting: at the threshold, just below it,
\* and below zero
SelectBases == {<<0, 0>>, <<5000, 4000>>, <<0, -20000>>}

TriggerLists == {<<>>, <<"hello">>, <<"greeting", Ghost>>, <<"hello", "greeting">>}

Priorities == {0, 5}

RuleIds == <<"r1", "r2", "r3", "r4", "r5">>
Intents == <<"greet", "ask", "thank", "bye", "joke">>

InitSelect ==
    /\ \E bases \in SelectBases :
         LET g == parse(NodeLines(<<"hello", "greeting">>, bases), <<>>)
         IN  /\ nodes = g.nodes
             /\ edges = g.edges
             /\ adjacency = g.adjacency
             /\ calls = ParseCalls(NodeLines(<<"hello", "greeting">>, bases), <<>>)
    /\ _turn = 0
    /\ responses = <<>>
    /\ modulators = [curiosity |-> 10, urgency |-> 10]
    /\ InitMemory
    /\ profiler = NewProfiler
    /\ trace = NewTrace
    /\ pc = "loaded"
    /\ concept_ids = <<>>
    /\ InitSpread
    /\ ret = None
    /\ arg = None

\* graph.add_response(rule)
AddResponse ==
    /\ pc = "loaded"
    /\ Len(responses) < MaxRules
    /\ Len(responses) < Len(RuleIds)
    /\ \E trig \in TriggerLists, prio \in Priorities :
         LET k == Len(responses) + 1
         IN  responses' = Append(responses, ResponseRule(RuleIds[k], trig, Intents[k], prio))
    /\ UNCHANGED <<bvars, nodes, edges, adjacency, mvars, modulators, profiler, trace, pc,
                   concept_ids, svars, ret, arg>>

\* engine.select_response(trace)
SelectResponse ==
    /\ pc = "seeded"
    /\ ret' = select_response(nodes, responses)
    /\ trace' = [trace EXCEPT !.response_intent = ret'.intent]
    /\ pc' = "selected"
    /\ UNCHANGED <<bvars, gvars, mvars, modulators, profiler, concept_ids, svars, arg>>

NextSelect == AddResponse \/ ResetActivations \/ InjectActivation \/ SelectResponse

SpecSelect == InitSelect /\ [][NextSelect]_vars

----------------------------------------------------------------------------
(* ShortTermMemory *)

\* variant of DequeAppend: the buffer grows without eviction
DequeAppendNoEvict(buf, maxlen, x) == Append(buf, x)

\* collections.deque(maxlen=maxlen).append(x): a full deque drops its oldest
\* item; a deque of maxlen 0 stays empty
DequeAppend(buf, maxlen, x) ==
    IF maxlen = 0 THEN buf
    ELSE IF Len(buf) >= maxlen THEN Append(Tail(buf), x)
    ELSE Append(buf, x)

\* ShortTermMemory.add_turn
add_turn(buf, cap, t, text, cids, resp) == DequeAppend(buf, cap, STMEntry(t, text, cids, resp))

\* Python's items[i:] for an integer i
SliceFrom(items, i) ==
    LET n == Len(items)
        lo == IF i < 0 THEN Max2(i + n, 0) ELSE Min2(i, n)
    IN  SubSeq(items, lo + 1, n)

\* ShortTermMemory.get_recent: items[-n:]
get_recent(buf, n) == SliceFrom(buf, -n)

----------------------------------------------------------------------------
(* SpecShortTerm: a ShortTermMemory of some capacity, its add_turn and its
   two queries *)

\* largest capacity of a ShortTermMemory
MaxCapacity == 3
\* most turns added
MaxAdded == 4
\* largest n asked of get_recent
MaxRecent == 4

\* the concept lists of a turn
ConceptLists == {<<>>, <<"A", "B">>, <<"B", "C">>, <<"D">>}

TurnTexts == <<"t1", "t2", "t3", "t4", "t5", "t6">>
TurnReplies == <<"r1", "r2", "r3", "r4", "r5", "r6">>

InitGraphIdle ==
    /\ nodes = <<>>
    /\ edges = <<>>
    /\ adjacency = <<>>
    /\ calls = <<>>
    /\ _turn = 0
    /\ responses = <<>>
    /\ modulators = [curiosity |-> 10, urgency |-> 10]
    /\ profiler = NewProfiler
    /\ trace = NewTrace
    /\ concept_ids = <<>>
    /\ InitSpread

InitShortTerm ==
    /\ InitGraphIdle
    /\ _capacity \in 1..MaxCapacity
    /\ _buffer = <<>>
    /\ _max = 100
    /\ _episodes = <<>>
    /\ added = <<>>
    /\ stored = <<>>
    /\ pc = "new"
    /\ ret = None
    /\ arg = None

evars == <<nodes, edges, adjacency, responses, modulators, profiler, trace,
           concept_ids, svars>>

\* stm.add_turn(t, text, cids, resp)
AddTurn ==
    /\ Len(added) < MaxAdded
    /\ Len(added) < Len(TurnTexts)
    /\ \E cids \in ConceptLists :
         LET t == Len(added) + 1
         IN  /\ _buffer' = add_turn(_buffer, _capacity, t, TurnTexts[t], cids, TurnReplies[t])
             /\ added' = Append(added, STMEntry(t, TurnTexts[t], cids, TurnReplies[t]))
    /\ pc' = "add_turn"
    /\ UNCHANGED <<bvars, evars, _capacity, _max, _episodes, stored, ret, arg>>

\* stm.get_recent(n)
GetRecent ==
    /\ \E n \in 0..MaxRecent :
         /\ ret' = get_recent(_buffer, n)
         /\ arg' = n
    /\ pc' = "get_recent"
    /\ UNCHANGED <<bvars, evars, mvars>>

\* stm.get_primed_concepts()
GetPrimedConcepts ==
    /\ ret' = get_primed_concepts(_buffer)
    /\ arg' = None
    /\ pc' = "get_primed_concepts"
    /\ UNCHANGED <<bvars, evars, mvars>>

NextShortTerm == AddTurn \/ GetRecent \/ GetPrimedConcepts

SpecShortTerm == InitShortTerm /\ [][NextShortTerm]_vars

----------------------------------------------------------------------------
(* EpisodicMemory *)

Episode(t, ctx, out, r) ==
    [turn |-> t, context_concepts |-> ctx, outcome_concepts |-> out, reinforcement |-> r]

\* variant of AtCapacity: eviction only once the store is over capacity
OverCapacity(eps, max) == Len(eps) > max

\* len(self._episodes) >= self._max
AtCapacity(eps, max) == Len(eps) >= max

\* EpisodicMemory.store_episode
store_episode(eps, max, t, ctx, out, r) ==
    Append(IF AtCapacity(eps, max) THEN Tail(eps) ELSE eps, Episode(t, ctx, out, r))

\* jaccard = len(intersection) / len(union) if union else 0.0: [num, den]
Jaccard(q, ctx) ==
    IF q \cup ctx = {} THEN [num |-> 0, den |-> 1]
    ELSE [num |-> Cardinality(q \cap ctx), den |-> Cardinality(q \cup ctx)]

\* a < b for two fractions with positive denominators
FracLess(a, b) == a.num * b.den < b.num * a.den

\* variant of InsertByKey: x goes before the items whose key equals x's
RECURSIVE InsertBeforeTies(_, _)
InsertBeforeTies(sorted, x) ==
    IF sorted = <<>> THEN <<x>>
    ELSE IF ~FracLess(x.key, Head(sorted).key) THEN <<x>> \o sorted
    ELSE <<Head(sorted)>> \o InsertBeforeTies(Tail(sorted), x)

\* scored.sort(key=lambda t: t[0], reverse=True), a stable sort: insert x
\* after every item whose key is not below x's
RECURSIVE InsertByKey(_, _)
InsertByKey(sorted, x) ==
    IF sorted = <<>> THEN <<x>>
    ELSE IF FracLess(Head(sorted).key, x.key) THEN <<x>> \o sorted
    ELSE <<Head(sorted)>> \o InsertByKey(Tail(sorted), x)

RECURSIVE SortDescending(_, _)
SortDescending(sorted, rest) ==
    IF rest = <<>> THEN sorted
    ELSE SortDescending(InsertByKey(sorted, Head(rest)), Tail(rest))

\* Python's items[:k] for an integer k
SliceTo(items, k) ==
    LET n == Len(items)
        hi == IF k < 0 THEN Max2(k + n, 0) ELSE Min2(k, n)
    IN  SubSeq(items, 1, hi)

\* EpisodicMemory.recall_similar
recall_similar(eps, q, top_k) ==
    IF q = {} \/ eps = <<>> THEN <<>>
    ELSE LET scored == [i \in DOMAIN eps |->
                           [key |-> Jaccard(q, eps[i].context_concepts), ep |-> eps[i]]]
             ranked == SliceTo(SortDescending(<<>>, scored), top_k)
         IN  [i \in DOMAIN ranked |-> ranked[i].ep]

----------------------------------------------------------------------------
(* SpecEpisodic: an EpisodicMemory of some capacity, its store_episode and
   its recall_similar *)

\* largest capacity of an EpisodicMemory
MaxEpisodes == 3
\* most episodes stored
MaxStored == 4
\* largest top_k asked of recall_similar
MaxTopK == 2

Contexts3 == {{}, {"a", "b"}, {"a", "b", "c"}, {"c"}}
Queries == {{}, {"a", "b"}, {"c"}}
Outcomes == {{"a"}}

InitEpisodic ==
    /\ InitGraphIdle
    /\ _capacity = 5
    /\ _buffer = <<>>
    /\ _max \in 1..MaxEpisodes
    /\ _episodes = <<>>
    /\ added = <<>>
    /\ stored = <<>>
    /\ pc = "new"
    /\ ret = None
    /\ arg = None

\* episodic.store_episode(turn, context, outcome, reinforcement=0.0)
StoreEpisode ==
    /\ Len(stored) < MaxStored
    /\ \E ctx \in Contexts3, out \in Outcomes :
         LET t == Len(stored) + 1
         IN  /\ _episodes' = store_episode(_episodes, _max, t, ctx, out, 0)
             /\ stored' = Append(stored, Episode(t, ctx, out, 0))
    /\ pc' = "store_episode"
    /\ UNCHANGED <<bvars, evars, _capacity, _buffer, _max, added, ret, arg>>

\* episodic.recall_similar(q, k)
RecallSimilar ==
    /\ \E q \in Queries, k \in 0..MaxTopK :
         /\ ret' = recall_similar(_episodes, q, k)
         /\ arg' = [current_concepts |-> q, top_k |-> k]
    /\ pc' = "recall_similar"
    /\ UNCHANGED <<bvars, evars, mvars>>

NextEpisodic == StoreEpisode \/ RecallSimilar

SpecEpisodic == InitEpisodic /\ [][NextEpisodic]_vars

----------------------------------------------------------------------------
(* NCEEngine.plan_response and Realizer.realize *)

\* ids in the order Python compares them as strings
IdOrder == <<"calm", "fear", "ghost", "greeting", "hello">>

IdRank(id) == CHOOSE i \in DOMAIN IdOrder : IdOrder[i] = id

\* a < b for two ids (str.__lt__)
IdLess(a, b) == IdRank(a) < IdRank(b)

\* variant of PairLess: among equal activations the larger id is the lesser pair
PairLessTiesAscending(p, q) ==
    \/ p.activation < q.activation
    \/ p.activation = q.activation /\ IdLess(q.id, p.id)

\* p < q for two tuples (activation, id)
PairLess(p, q) ==
    \/ p.activation < q.activation
    \/ p.activation = q.activation /\ IdLess(p.id, q.id)

\* variant of IsActive: the threshold itself counts as active
IsActiveAtThreshold(a) == a >= ACTIVATION_THRESHOLD

\* n.activation > self.ACTIVATION_THRESHOLD
IsActive(a) == a > ACTIVATION_THRESHOLD

\* [(n.activation, n.id) for n in nodes.values() if n.activation > threshold]
RECURSIVE ActivePairs(_)
ActivePairs(ns) ==
    IF ns = <<>> THEN <<>>
    ELSE (IF IsActive(Head(ns).activation)
          THEN <<[activation |-> Head(ns).activation, id |-> Head(ns).id]>>
          ELSE <<>>) \o ActivePairs(Tail(ns))

\* active.sort(reverse=True): insert x before the first pair below it
RECURSIVE InsertPair(_, _)
InsertPair(sorted, x) ==
    IF sorted = <<>> THEN <<x>>
    ELSE IF PairLess(Head(sorted), x) THEN <<x>> \o sorted
    ELSE <<Head(sorted)>> \o InsertPair(Tail(sorted), x)

RECURSIVE SortPairsDescending(_, _)
SortPairsDescending(sorted, rest) ==
    IF rest = <<>> THEN sorted
    ELSE SortPairsDescending(InsertPair(sorted, Head(rest)), Tail(rest))

\* active_ids of plan_response
active_ids(ns) ==
    LET active == SortPairsDescending(<<>>, ActivePairs(ns))
    IN  [i \in DOMAIN active |-> active[i].id]

\* Realizer._FALLBACK
FALLBACK == <<"I'm not sure what to say about that.">>

\* nol.templates: the first template of each intent, and whether it holds
\* the placeholder {concept}
Templates ==
    [greet |-> [text |-> "Hello, {concept}!", slot |-> TRUE],
     ask   |-> [text |-> "How are you?", slot |-> FALSE]]

\* Realizer._best_label; every active id is a node, so its label is in the map
_best_label(active, ns) ==
    IF active = <<>> THEN "something" ELSE get_node(ns, active[1]).label

\* Realizer.realize: the text as <<template>> or <<template, substituted label>>
realize(intent, active, ns) ==
    IF intent \notin DOMAIN Templates THEN FALLBACK
    ELSE IF Templates[intent].slot
         THEN <<Templates[intent].text, _best_label(active, ns)>>
         ELSE <<Templates[intent].text>>

\* NCEEngine.plan_response: (intent, text)
plan_response(ns, rule) == <<rule.intent, realize(rule.intent, active_ids(ns), ns)>>

----------------------------------------------------------------------------
(* NCEEngine.run_turn *)

\* steps=3 and decay=0.8 of the spread_activation call in run_turn
RUN_STEPS == 3
RUN_DECAY == 8

\* the whole loop of spread_activation from step s on; st holds nodes, trace,
\* the two profiler counters and the history of the last step run
RECURSIVE SpreadLoop(_, _, _, _, _, _)
SpreadLoop(st, adj, s, n, dec, mf) ==
    IF s >= n THEN st
    ELSE LET r == SpreadIteration(st.nodes, adj, st.trace, st.traversed_edges,
                                  s, dec, mf)
         IN  SpreadLoop([nodes |-> r.nodes, trace |-> r.trace,
                         traversed_edges |-> r.traversed_edges,
                         steps_executed |-> st.steps_executed + 1,
                         updates |-> r.updates, deltas |-> r.deltas,
                         start |-> ActivationMap(st.nodes),
                         touched |-> st.touched \cup
                                     (DOMAIN r.updates \cap NodeIdsOf(st.nodes))],
                        adj, s + 1, n, dec, mf)

\* NCEEngine.spread_activation(trace, steps=n, decay=dec)
spread_activation(ns, adj, tr, prof, n, dec, mods) ==
    SpreadLoop([nodes |-> ns, trace |-> tr,
                traversed_edges |-> prof.traversed_edges,
                steps_executed |-> prof.steps_executed,
                updates |-> <<>>, deltas |-> <<>>, start |-> <<>>, touched |-> {}],
               adj, 0, n, dec, ModFactor(mods))

\* [n.id for n in nodes.values() if n.activation > threshold]
RECURSIVE ActiveIds(_)
ActiveIds(ns) ==
    IF ns = <<>> THEN <<>>
    ELSE (IF IsActive(Head(ns).activation) THEN <<Head(ns).id>> ELSE <<>>)
         \o ActiveIds(Tail(ns))

\* sorted(ids): insert x before the first id above it
RECURSIVE InsertId(_, _)
InsertId(sorted, x) ==
    IF sorted = <<>> THEN <<x>>
    ELSE IF IdLess(x, Head(sorted)) THEN <<x>> \o sorted
    ELSE <<Head(sorted)>> \o InsertId(Tail(sorted), x)

RECURSIVE SortIds(_, _)
SortIds(sorted, rest) ==
    IF rest = <<>> THEN sorted
    ELSE SortIds(InsertId(sorted, Head(rest)), Tail(rest))

\* variant of NextTurn: the counter is left alone
SameTurn(t) == t

\* self._turn += 1
NextTurn(t) == t + 1

----------------------------------------------------------------------------
(* SpecTurn: an engine over a loaded graph with response rules runs turn
   after turn; a turn is followed through the positions of run_turn *)

\* most turns run
MaxTurns == 3

\* the node and edge sections of the graphs loaded
TurnNodeFiles ==
    {NodeLines(<<"hello", "greeting">>, bases) : bases \in {<<0, 0>>, <<6000, 5000>>}}

TurnEdgeFiles ==
    { << Edge("hello", "greeting", 9, "excitatory"),
         Edge("greeting", Ghost, 5, "excitatory") >>,
      << Edge("greeting", "hello", -4, "inhibitory"),
         Edge(Ghost, "hello", 9, "excitatory") >>,
      << Edge("hello", "greeting", 9, "excitatory"),
         Edge("greeting", "hello", 9, "excitatory") >> }

\* the responses section
TurnRules ==
    << ResponseRule("r1", <<"greeting", Ghost>>, "greet", 0),
       ResponseRule("r2", <<"hello">>, "ask", 2) >>

\* what the user types, with the ids map_to_concepts(tokenize(text)) yields
TurnInputs ==
    { [input_text |-> "",               concepts |-> <<>>],
      [input_text |-> "hello",          concepts |-> <<"hello">>],
      [input_text |-> "hello greeting", concepts |-> <<"hello", "greeting">>],
      [input_text |-> "greeting ghost", concepts |-> <<"greeting", Ghost>>] }

InitTurn ==
    /\ \E ns \in TurnNodeFiles, es \in TurnEdgeFiles :
         LET g == parse(ns, es)
         IN  /\ nodes = g.nodes
             /\ edges = g.edges
             /\ adjacency = g.adjacency
             /\ calls = ParseCalls(ns, es)
    /\ responses = TurnRules
    /\ modulators = [curiosity |-> 10, urgency |-> 10]
    /\ _turn = 0
    /\ _capacity \in 1..MaxCapacity
    /\ _buffer = <<>>
    /\ _max \in {1, MaxEpisodes}
    /\ _episodes = <<>>
    /\ added = <<>>
    /\ stored = <<>>
    /\ profiler = NewProfiler
    /\ trace = NewTrace
    /\ pc = "idle"
    /\ concept_ids = <<>>
    /\ InitSpread
    /\ ret = None
    /\ arg = None

\* run_turn lines 203-212: the resets, the turn counter, and the recognition
\* of the concept ids of the input
TurnReset ==
    /\ pc = "idle"
    /\ _turn < MaxTurns
    /\ profiler' = Profiler_reset(profiler)
    /\ nodes' = reset_activations(nodes)
    /\ trace' = NewTrace
    /\ _turn' = NextTurn(_turn)
    /\ \E in \in TurnInputs :
         /\ arg' = in.input_text
         /\ concept_ids' = in.concepts
    /\ pc' = "reset"
    /\ UNCHANGED <<calls, edges, adjacency, responses, mvars, modulators, svars, ret>>

\* run_turn line 215: inject_activation(concept_ids)
TurnInject ==
    /\ pc = "reset"
    /\ \E order \in Orders(get_primed_concepts(_buffer)) :
         LET r == inject_activation(nodes, concept_ids, order, profiler.activated_nodes)
         IN  /\ nodes' = r.nodes
             /\ profiler' = [profiler EXCEPT !.activated_nodes = r.activated_nodes]
    /\ pc' = "seeded"
    /\ UNCHANGED <<bvars, edges, adjacency, responses, mvars, modulators, trace,
                   concept_ids, svars, ret, arg>>

\* run_turn line 218: spread_activation(trace, steps=3, decay=0.8)
TurnSpread ==
    /\ pc = "seeded"
    /\ LET r == spread_activation(nodes, adjacency, trace, profiler, RUN_STEPS,
                                  RUN_DECAY, modulators)
       IN  /\ nodes' = r.nodes
           /\ trace' = r.trace
           /\ profiler' = [profiler EXCEPT !.traversed_edges = r.traversed_edges,
                                           !.steps_executed = r.steps_executed]
           /\ updates' = r.updates
           /\ deltas' = r.deltas
           /\ start' = r.start
           /\ touched' = r.touched
    /\ steps' = RUN_STEPS
    /\ decay' = RUN_DECAY
    /\ step' = RUN_STEPS
    /\ mod_factor' = ModFactor(modulators)
    /\ pc' = "spread_done"
    /\ UNCHANGED <<bvars, edges, adjacency, responses, mvars, modulators,
                   concept_ids, ret, arg>>

\* run_turn lines 221-248: select_response, plan_response, the final
\* concepts, stm.add_turn and episodic.store_episode; ret holds what
\* plan_response computed: the intent, the active ids it handed to
\* realizer.realize, and the text run_turn returns
TurnRespond ==
    /\ pc = "spread_done"
    /\ LET rule == select_response(nodes, responses)
           plan == plan_response(nodes, rule)
           final_concepts == ActiveIds(nodes)
       IN  /\ trace' = [trace EXCEPT !.response_intent = rule.intent,
                                     !.final_concepts = SortIds(<<>>, final_concepts)]
           /\ ret' = [intent |-> plan[1], active_concepts |-> active_ids(nodes),
                       response_text |-> plan[2]]
           /\ _buffer' = add_turn(_buffer, _capacity, _turn, arg, concept_ids, plan[2])
           /\ added' = Append(added, STMEntry(_turn, arg, concept_ids, plan[2]))
           /\ _episodes' = store_episode(_episodes, _max, _turn, SeqToSet(concept_ids),
                                         SeqToSet(final_concepts), 0)
           /\ stored' = Append(stored, Episode(_turn, SeqToSet(concept_ids),
                                               SeqToSet(final_concepts), 0))
    /\ pc' = "idle"
    /\ UNCHANGED <<bvars, gvars, _capacity, _max, modulators, profiler, concept_ids,
                   svars, arg>>

NextTurnStep == TurnReset \/ TurnInject \/ TurnSpread \/ TurnRespond

SpecTurn == InitTurn /\ [][NextTurnStep]_vars

----------------------------------------------------------------------------
(* SpecGraph: a BrainGraph is built by add_node and add_edge calls in any
   order *)

\* most add_node / add_edge calls
MaxCalls == 5

\* the nodes handed to add_node: two under the id hello that differ in
\* every other field, one under greeting
BuildNodes ==
    { Node("hello", 0),
      [id |-> "hello", type |-> "emotion", label |-> "Hello", base_activation |-> 30000,
       activation |-> 70000],
      Node("greeting", 0) }

\* the edges handed to add_edge; Ghost is never added as a node
BuildEdges ==
    { Edge("hello", "greeting", 9, "excitatory"),
      Edge("hello", Ghost, 5, "excitatory"),
      Edge("greeting", "hello", -4, "inhibitory"),
      Edge(Ghost, "hello", 9, "excitatory") }

InitGraph ==
    /\ InitGraphIdle
    /\ InitMemory
    /\ pc = "new"
    /\ ret = None
    /\ arg = None

\* graph.add_node(node)
AddNode ==
    /\ Len(calls) < MaxCalls
    /\ \E node \in BuildNodes :
         LET g == add_node([nodes |-> nodes, edges |-> edges, adjacency |-> adjacency],
                           node)
         IN  /\ nodes' = g.nodes
             /\ edges' = g.edges
             /\ adjacency' = g.adjacency
             /\ calls' = Append(calls, Call("add_node", node))
             /\ arg' = node
    /\ pc' = "add_node"
    /\ UNCHANGED <<_turn, responses, mvars, modulators, profiler, trace, concept_ids,
                   svars, ret>>

\* graph.add_edge(edge)
AddEdge ==
    /\ Len(calls) < MaxCalls
    /\ \E edge \in BuildEdges :
         LET g == add_edge([nodes |-> nodes, edges |-> edges, adjacency |-> adjacency],
                           edge)
         IN  /\ nodes' = g.nodes
             /\ edges' = g.edges
             /\ adjacency' = g.adjacency
             /\ calls' = Append(calls, Call("add_edge", edge))
             /\ arg' = edge
    /\ pc' = "add_edge"
    /\ UNCHANGED <<_turn, responses, mvars, modulators, profiler, trace, concept_ids,
                   svars, ret>>

NextGraph == AddNode \/ AddEdge

SpecGraph == InitGraph /\ [][NextGraph]_vars

----------------------------------------------------------------------------
(* Properties of the spreading stages (Spec) *)

InRange(a) == a >= 0 /\ a <= ONE

\* a step of the running or finished spread_activation call has been run;
\* start, updates and deltas describe step index step - 1
StepRan == pc \in {"spread", "spread_done"} /\ step > 0

HelloScenario ==
    /\ pc = "spread_done"
    /\ nodes = <<[Node("hello", 0) EXCEPT !.activation = nodes[1].activation],
                 [Node("greeting", 0) EXCEPT !.activation = nodes[2].activation]>>
    /\ edges = <<Edge("hello", "greeting", 9, "excitatory")>>
    /\ \A k \in DOMAIN modulators : modulators[k] = MUNIT
    /\ _buffer = <<>>
    /\ concept_ids = <<"hello">>
    /\ steps = 1
    /\ decay = 8

\* C2 as stated: in the hello scenario greeting ends at 0.72 and hello at 1.0.
C2_GreetingIs072 ==
    HelloScenario =>
        /\ ActivationOf(nodes, "greeting") = 72000
        /\ ActivationOf(nodes, "hello") = ONE

\* C2, amended: in the hello scenario greeting ends at 0.9 (the single step
\* has index 0 and decay factor decay^0 = 1) and hello stays at 1.0.
C2_GreetingIs09 ==
    HelloScenario =>
        /\ ActivationOf(nodes, "greeting") = 90000
        /\ ActivationOf(nodes, "hello") = ONE

C2_Witness == HelloScenario /\ ActivationOf(nodes, "greeting") = 90000

\* ids whose activation at the start of the last step exceeded the threshold
Emitters == {id \in DOMAIN start : start[id] > ACTIVATION_THRESHOLD}

\* the edges of id's adjacency bucket whose target is a node
RECURSIVE LiveEdges(_)
LiveEdges(es) ==
    IF es = <<>> THEN <<>>
    ELSE (IF Head(es).target \in NodeIdsOf(nodes) THEN <<Head(es)>> ELSE <<>>)
         \o LiveEdges(Tail(es))

\* the deltas logged for source id, in order
RECURSIVE DeltasFrom(_, _)
DeltasFrom(ds, id) ==
    IF ds = <<>> THEN <<>>
    ELSE (IF Head(ds).source = id THEN <<Head(ds)>> ELSE <<>>) \o DeltasFrom(Tail(ds), id)

\* the sum of the deltas logged for target id
RECURSIVE SumInto(_, _)
SumInto(ds, id) ==
    IF ds = <<>> THEN 0
    ELSE (IF Head(ds).edge.target = id THEN Head(ds).delta ELSE 0) + SumInto(Tail(ds), id)

\* C5: step isolation.  In the step just run, the nodes recorded and emitting
\* are those above the threshold at the start of the step; every emitter
\* emitted once along each of its edges to a node, each delta computed from
\* the emitter's activation at the start of the step; a node's deltas are
\* summed and applied only after the scan, so they show in the node's own
\* emission from the next step on.
C5_StepIsolation ==
    StepRan =>
        LET s == step - 1
            rec == {k \in DOMAIN trace.node_activations : trace.node_activations[k][1] = s}
        IN  /\ {trace.node_activations[k][2] : k \in rec} = Emitters
            /\ \A k \in rec :
                  trace.node_activations[k][3] = Round4(start[trace.node_activations[k][2]])
            /\ \A id \in DOMAIN start :
                  LET out == DeltasFrom(deltas, id)
                      live == IF id \in Emitters
                              THEN LiveEdges(get_edges_from(adjacency, id)) ELSE <<>>
                  IN  /\ Len(out) = Len(live)
                      /\ \A k \in DOMAIN out :
                            /\ out[k].edge = live[k]
                            /\ out[k].delta =
                                 EdgeDelta(start[id], live[k], DecayFactor(decay, s), mod_factor)
            /\ \A id \in DOMAIN start :
                  /\ id \in DOMAIN updates <=> \E k \in DOMAIN deltas : deltas[k].edge.target = id
                  /\ id \in DOMAIN updates => updates[id] = SumInto(deltas, id)
                  /\ ActivationOf(nodes, id) =
                       IF id \in DOMAIN updates
                       THEN Max2(0, Min2(ONE, start[id] + updates[id]))
                       ELSE start[id]

\* in one scan a node received a non-zero delta from a node scanned before it
\* and then emitted itself; and a node that started a step at or below the
\* threshold emits in the next one
C5_Witness ==
    /\ StepRan
    /\ step >= 2
    /\ \E k, m \in DOMAIN deltas :
          /\ k < m
          /\ deltas[k].edge.target = deltas[m].source
          /\ deltas[k].delta # 0
          /\ deltas[m].delta # 0
    /\ \E id \in Emitters : id \in touched /\ id \notin SeqToSet(concept_ids)

\* C6: the delta of an inhibitory edge is -(source activation * |weight| * 0.5)
\* times the modulator product, whatever the step index and the decay; for
\* weight 0.4 (stored as 0.4 or -0.4), source at 1.0 and modulators 1.0 it is -0.2.
C6_InhibitoryDeltaIgnoresDecay ==
    StepRan =>
        \A k \in DOMAIN deltas :
            deltas[k].edge.edge_type = "inhibitory" =>
                LET a == start[deltas[k].source]
                    w == Abs(deltas[k].edge.weight)
                    raw == -((a * w * INHIBIT_HALF) \div (WUNIT * WUNIT))
                IN  /\ a > 0
                    /\ deltas[k].delta = TruncDiv(raw * mod_factor.num, mod_factor.den)
                    /\ (a = ONE /\ w = 4 /\ mod_factor.num = mod_factor.den)
                           => deltas[k].delta = -20000

\* fear -> calm of weight 0.4 emits -0.2 in a step after the first, with a
\* decay below 1
C6_Witness ==
    /\ StepRan
    /\ step >= 2
    /\ decay = 8
    /\ \E k \in DOMAIN deltas :
          /\ deltas[k].edge = Edge("fear", "calm", 4, "inhibitory")
          /\ start["fear"] = ONE
          /\ deltas[k].delta = -20000

\* the ids some turn of the short-term memory lists
PrimingSet == UNION {SeqToSet(_buffer[i].active_concepts) : i \in DOMAIN _buffer}

\* C14: after inject_activation every recognized concept id that resolves to
\* a node has activation exactly 1.0, primed or not; every primed id that
\* resolves to a node that is not seeded and whose activation a is below 1.0
\* has min(1.0, a + 0.3); every other node keeps its base_activation;
\* priming lowers no activation.
C14_SeedsAtOnePrimedBoosted ==
    pc = "seeded" =>
        \A i \in DOMAIN nodes :
            LET n == nodes[i]
                a == n.base_activation
                seeded == n.id \in SeqToSet(concept_ids)
                boosted == ~seeded /\ n.id \in PrimingSet /\ a < ONE
            IN  /\ seeded => n.activation = ONE
                /\ boosted => n.activation = Min2(ONE, a + PRIMING_BOOST)
                /\ (~seeded /\ ~boosted) => n.activation = a
                /\ (~seeded /\ n.id \in PrimingSet) => n.activation >= a

\* hello is seeded and is at 1.0; greeting, primed but not seeded, went from
\* its rest value 0.8 to the cap 1.0 and not to 1.1
C14_Witness ==
    /\ pc = "seeded"
    /\ concept_ids = <<"hello">>
    /\ "greeting" \in PrimingSet
    /\ Resolves(nodes, "greeting")
    /\ get_node(nodes, "hello").activation = ONE
    /\ get_node(nodes, "greeting").base_activation = 80000
    /\ get_node(nodes, "greeting").activation = ONE

\* the records of seq whose step field is s, in order
RECURSIVE RecordsOfStep(_, _)
RecordsOfStep(seq, s) ==
    IF seq = <<>> THEN <<>>
    ELSE (IF Head(seq)[1] = s THEN <<Head(seq)>> ELSE <<>>) \o RecordsOfStep(Tail(seq), s)

\* one edge record (s, source, target, weight) per edge of es
EdgeRecords(es, s) ==
    [k \in DOMAIN es |-> <<s, es[k].source, es[k].target, es[k].weight * 1000>>]

\* the node records due in step s: one for every node of ns that started the
\* step above 0.05, in graph order
RECURSIVE NodeRecordsDue(_, _)
NodeRecordsDue(ns, s) ==
    IF ns = <<>> THEN <<>>
    ELSE (IF start[Head(ns).id] > 5000
          THEN <<<<s, Head(ns).id, Round4(start[Head(ns).id])>>>> ELSE <<>>)
         \o NodeRecordsDue(Tail(ns), s)

\* the edge records due in step s: for every node that started the step
\* above 0.05, one per outgoing edge whose target is a node
RECURSIVE EdgeRecordsDue(_, _)
EdgeRecordsDue(ns, s) ==
    IF ns = <<>> THEN <<>>
    ELSE (IF start[Head(ns).id] > 5000
          THEN EdgeRecords(LiveEdges(get_edges_from(adjacency, Head(ns).id)), s)
          ELSE <<>>)
         \o EdgeRecordsDue(Tail(ns), s)

\* C21: in every spreading step s a record (s, node, activation) is added to
\* the trace exactly for the nodes whose activation at the start of step s
\* is strictly above 0.05, and only those nodes emit deltas in step s; a node
\* at 0.05 or below neither emits nor is recorded; an edge record (s, source,
\* target, weight) is added exactly once for each outgoing edge of a
\* recorded node whose target is a node.
C21_RecordedIffAboveThreshold ==
    StepRan =>
        LET s == step - 1
        IN  /\ RecordsOfStep(trace.node_activations, s) = NodeRecordsDue(nodes, s)
            /\ RecordsOfStep(trace.edge_traversals, s) = EdgeRecordsDue(nodes, s)
            /\ \A k \in DOMAIN deltas : start[deltas[k].source] > 5000
            /\ \A id \in DOMAIN start :
                  start[id] <= 5000 =>
                      /\ \A k \in DOMAIN trace.node_activations :
                            ~(trace.node_activations[k][1] = s
                              /\ trace.node_activations[k][2] = id)
                      /\ \A k \in DOMAIN trace.edge_traversals :
                            ~(trace.edge_traversals[k][1] = s
                              /\ trace.edge_traversals[k][2] = id)
                      /\ \A k \in DOMAIN deltas : deltas[k].source # id

\* greeting started the step at exactly 0.05, with an edge to hello, and is
\* in no record of the step; hello started above 0.05 and is recorded
C21_Witness ==
    /\ StepRan
    /\ "greeting" \in DOMAIN start
    /\ start["greeting"] = 5000
    /\ start["hello"] > 5000
    /\ \E k \in DOMAIN get_edges_from(adjacency, "greeting") :
          get_edges_from(adjacency, "greeting")[k].target = "hello"
    /\ RecordsOfStep(trace.node_activations, step - 1)
          = << <<step - 1, "hello", Round4(start["hello"])>> >>
    /\ RecordsOfStep(trace.edge_traversals, step - 1) = <<>>

\* the delta of a logged emission in step s before it is scaled
UnscaledDelta(d, s) ==
    LET a == start[d.source]
        w == d.edge.weight
    IN  IF d.edge.edge_type = "excitatory"
        THEN TruncDiv(a * w * Pow(decay, s), 10 * Pow(10, s))
        ELSE TruncDiv(-(a * Abs(w) * 5), 100)

\* the product of the two modulators, in hundredths
ModulatorProduct == modulators.curiosity * modulators.urgency

\* every delta of the step is its unscaled value times the product of the
\* modulator table; with a product of 1.0 it is the unscaled value, with a
\* product of 0 it is 0
DeltasScaledByProduct ==
    /\ mod_factor.num * 100 = ModulatorProduct * mod_factor.den
    /\ \A k \in DOMAIN deltas :
          /\ deltas[k].delta =
                TruncDiv(UnscaledDelta(deltas[k], step - 1) * ModulatorProduct, 100)
          /\ ModulatorProduct = 100 =>
                deltas[k].delta = UnscaledDelta(deltas[k], step - 1)
          /\ ModulatorProduct = 0 => deltas[k].delta = 0

\* C23 as claimed: every delta of a turn, excitatory or inhibitory, is
\* multiplied by one and the same factor, the product of the modulator
\* table as it was when spreading started; with every modulator at 1.0 the
\* deltas equal the unscaled formulas, and with a product of 0 spreading
\* changes no activation.
C23_ZeroProductChangesNothing ==
    StepRan =>
        /\ DeltasScaledByProduct
        /\ ModulatorProduct = 0 =>
              \A id \in DOMAIN start : ActivationOf(nodes, id) = start[id]

\* C23: every delta of a turn, excitatory or inhibitory, is multiplied by
\* one and the same factor, the product of the modulator table as it was
\* when spreading started; with every modulator at 1.0 the deltas equal the
\* unscaled formulas; with a product of 0 every delta is 0 and spreading
\* changes no activation that lies in [0, 1], while a node outside [0, 1]
\* that a delta of 0 is applied to is clamped into [0, 1].
C23_OneFactorForEveryDelta ==
    StepRan =>
        /\ DeltasScaledByProduct
        /\ ModulatorProduct = 0 =>
              \A id \in DOMAIN start :
                  ActivationOf(nodes, id) =
                      IF id \in DOMAIN updates /\ start[id] < 0 THEN 0
                      ELSE IF id \in DOMAIN updates /\ start[id] > ONE THEN ONE
                      ELSE start[id]

\* with the modulators 2.0 and 1.5 one step logged an excitatory and an
\* inhibitory delta from hello at 1.0, each three times its unscaled value
C23_Witness ==
    /\ StepRan
    /\ step = 1
    /\ ModulatorProduct = 300
    /\ \E k, l \in DOMAIN deltas :
          /\ deltas[k].edge = Edge("hello", "greeting", 9, "excitatory")
          /\ deltas[l].edge = Edge("hello", "greeting", 4, "inhibitory")
          /\ start["hello"] = ONE
          /\ deltas[k].delta = 270000
          /\ deltas[l].delta = -60000

----------------------------------------------------------------------------
(* Properties of response selection (SpecSelect) *)

\* the score of the i-th registered rule
ScoreAt(i) == RuleScore(nodes, responses[i])

Fires(i) == ScoreAt(i) >= ACTIVATION_THRESHOLD

\* C3: select_response returns the fallback rule exactly when the rule list is
\* empty or no rule scores at least 0.05; when some rule scores at least 0.05
\* a rule of the graph is returned; the returned rule's intent is the one
\* written to the trace.
C3_FallbackIffNothingFires ==
    pc = "selected" =>
        /\ ret = FallbackRule <=> (\A i \in DOMAIN responses : ~Fires(i))
        /\ (\E i \in DOMAIN responses : Fires(i)) => \E j \in DOMAIN responses : ret = responses[j]
        /\ ret.id = "r_fallback" =>
              ret.trigger_concepts = <<>> /\ ret.intent = "unknown" /\ ret.priority = 0
        /\ trace.response_intent = ret.intent

\* a rule scoring exactly 0.05 was returned although an earlier rule scored
\* above zero and below the threshold
C3_Witness ==
    /\ pc = "selected"
    /\ \E i, j \in DOMAIN responses :
          /\ i < j
          /\ ScoreAt(i) > 0 /\ ~Fires(i)
          /\ ScoreAt(j) = ACTIVATION_THRESHOLD
          /\ ret = responses[j]
          /\ trace.response_intent = responses[j].intent

\* C4: when some rule scores at least 0.05 the returned rule is the
\* earliest-inserted rule of maximum score: no earlier rule scores as much,
\* no later rule scores more.
C4_EarliestOfMaximum ==
    (pc = "selected" /\ \E i \in DOMAIN responses : Fires(i)) =>
        \E j \in DOMAIN responses :
            /\ ret = responses[j]
            /\ \A i \in DOMAIN responses : i < j => ScoreAt(i) < ScoreAt(j)
            /\ \A i \in DOMAIN responses : i > j => ScoreAt(i) <= ScoreAt(j)

\* two rules tie at the maximum, a lower-scoring rule was inserted before
\* them, and the first of the two was returned
C4_Witness ==
    /\ pc = "selected"
    /\ \E h, i, j \in DOMAIN responses :
          /\ h < i /\ i < j
          /\ ScoreAt(h) < ScoreAt(i)
          /\ ScoreAt(i) = ScoreAt(j)
          /\ Fires(i)
          /\ responses[i].trigger_concepts # responses[j].trigger_concepts
          /\ ret = responses[i]

----------------------------------------------------------------------------
(* Properties of the memories (SpecShortTerm, SpecEpisodic) *)

\* the last min(Len(h), n) items of the history h, oldest first
LastOf(h, n) == SubSeq(h, Len(h) - Min2(Len(h), n) + 1, Len(h))

\* C7: after any sequence of add_turn calls on a ShortTermMemory of capacity
\* C >= 1 the buffer holds at most C entries: the min(t, C) most recently added
\* turns, in the order they were added.
C7_BufferIsLastCapacityTurns ==
    /\ Len(_buffer) <= _capacity
    /\ _buffer = LastOf(added, _capacity)

\* a buffer of capacity at least 2 that has evicted twice
C7_Witness ==
    /\ pc = "add_turn"
    /\ _capacity >= 2
    /\ Len(added) >= _capacity + 2
    /\ Len(_buffer) = _capacity

\* the entries of the history that are still buffered under capacity C
Buffered == {k \in DOMAIN added : k > Len(added) - _capacity}

\* C8: get_primed_concepts() returns exactly the union of active_concepts over
\* the entries currently in the buffer: a concept is primed iff some
\* non-evicted turn lists it; turns {A,B} then {B,C} with capacity >= 2 give {A,B,C}.
C8_PrimedIsUnionOfBuffered ==
    pc = "get_primed_concepts" =>
        /\ \A c \in {"A", "B", "C", "D"} :
              c \in ret <=> \E k \in Buffered : c \in SeqToSet(added[k].active_concepts)
        /\ ret \subseteq {"A", "B", "C", "D"}
        /\ (/\ _capacity >= 2
            /\ Len(added) = 2
            /\ added[1].active_concepts = <<"A", "B">>
            /\ added[2].active_concepts = <<"B", "C">>) => ret = {"A", "B", "C"}

\* D was listed by a turn since evicted and is not primed, while the two
\* buffered turns {A,B} and {B,C} prime A, B and C
C8_Witness ==
    /\ pc = "get_primed_concepts"
    /\ _capacity = 2
    /\ Len(added) = 3
    /\ added[1].active_concepts = <<"D">>
    /\ added[2].active_concepts = <<"A", "B">>
    /\ added[3].active_concepts = <<"B", "C">>
    /\ ret = {"A", "B", "C"}

\* C9: for every n >= 0, get_recent(n) returns at most n entries: the
\* min(n, buffer length) most recently added entries, oldest first; get_recent(0)
\* is empty.
C9_RecentIsLastN ==
    pc = "get_recent" =>
        /\ Len(ret) <= arg
        /\ ret = LastOf(_buffer, arg)

\* C10: after any sequence of store_episode calls on an EpisodicMemory of
\* capacity M >= 1 the store holds at most M episodes: the min(t, M) most
\* recently stored ones in insertion order; once M + 1 episodes were stored the
\* first one is in no result of recall_similar.
C10_StoreIsLastMaxEpisodes ==
    /\ Len(_episodes) <= _max
    /\ _episodes = LastOf(stored, _max)
    /\ (pc = "recall_similar" /\ Len(stored) >= _max + 1) =>
           \A i \in DOMAIN ret : ret[i] # stored[1] /\ ret[i].turn # 1

\* M + 1 episodes were stored, the first with the very context that is now
\* queried, and the recall returns every stored episode but not the first
C10_Witness ==
    /\ pc = "recall_similar"
    /\ _max >= 2
    /\ Len(stored) = _max + 1
    /\ arg.current_concepts = stored[1].context_concepts
    /\ arg.top_k >= _max
    /\ Len(ret) = _max
    /\ \A i \in DOMAIN ret : ret[i].turn # 1

\* the Jaccard similarity of the query of the last recall to an episode
SimilarityTo(e) == Jaccard(arg.current_concepts, e.context_concepts)

SameFrac(a, b) == a.num * b.den = b.num * a.den

\* C11: for a non-empty query and top_k >= 0, recall_similar returns
\* min(top_k, number of stored episodes) stored episodes in order of
\* non-increasing Jaccard similarity of their context to the query; no episode
\* left out is more similar than a returned one; equally similar episodes
\* appear oldest first; with the contexts {a,b} and {a,b,c} stored, the query
\* {a,b} ranks the {a,b} episode first.
C11_RecallRanksBySimilarity ==
    (pc = "recall_similar" /\ arg.current_concepts # {} /\ arg.top_k >= 0) =>
        /\ Len(ret) = Min2(arg.top_k, Len(_episodes))
        /\ \A i \in DOMAIN ret : \E j \in DOMAIN _episodes : ret[i] = _episodes[j]
        /\ \A i, j \in DOMAIN ret :
              i < j => /\ ~FracLess(SimilarityTo(ret[i]), SimilarityTo(ret[j]))
                       /\ SameFrac(SimilarityTo(ret[i]), SimilarityTo(ret[j]))
                              => ret[i].turn < ret[j].turn
        /\ \A j \in DOMAIN _episodes :
              (\A i \in DOMAIN ret : ret[i] # _episodes[j]) =>
                  \A i \in DOMAIN ret :
                      ~FracLess(SimilarityTo(ret[i]), SimilarityTo(_episodes[j]))
        /\ ( /\ arg.current_concepts = {"a", "b"}
             /\ arg.top_k >= 1
             /\ \E j \in DOMAIN _episodes : _episodes[j].context_concepts = {"a", "b"} )
              => ret[1].context_concepts = {"a", "b"}

\* {a,b,c}, {a,b}, {a,b} are stored in that order and {a,b} is queried with
\* top_k = 2: the two {a,b} episodes come back, older first, and the earlier
\* stored {a,b,c} episode is left out
C11_Witness ==
    /\ pc = "recall_similar"
    /\ Len(_episodes) = 3
    /\ _episodes[1].context_concepts = {"a", "b", "c"}
    /\ _episodes[2].context_concepts = {"a", "b"}
    /\ _episodes[3].context_concepts = {"a", "b"}
    /\ arg = [current_concepts |-> {"a", "b"}, top_k |-> 2]
    /\ ret = <<_episodes[2], _episodes[3]>>

----------------------------------------------------------------------------
(* Properties of run_turn (SpecTurn) *)

\* a turn has run to its end
TurnDone == pc = "idle" /\ _turn >= 1

\* C12: immediately after reset_activations() every node has activation =
\* base_activation; run_turn resets before it seeds or primes, so when
\* seeding starts no node carries an activation of the previous turn.
C12_ResetBeforeSeeding ==
    pc = "reset" =>
        \A i \in DOMAIN nodes : nodes[i].activation = nodes[i].base_activation

\* the second turn is about to seed; the first turn ended with hello, whose
\* rest value is 0, above the threshold
C12_Witness ==
    /\ pc = "reset"
    /\ _turn = 2
    /\ "hello" \in stored[1].outcome_concepts
    /\ get_node(nodes, "hello").base_activation = 0
    /\ get_node(nodes, "hello").activation = 0

\* the turn run again from the state it started in, its priming set
\* iterated in the given order: the nodes and trace after spreading
RunAgain(order) ==
    LET seeded == inject_activation(reset_activations(nodes), concept_ids, order, 0)
    IN  spread_activation(seeded.nodes, adjacency, NewTrace, NewProfiler,
                          RUN_STEPS, RUN_DECAY, modulators)

\* C13: a run is determined by the graph state, the seeds, the priming set
\* and the modulators: a second run from the same graph, seeds, priming set
\* and modulators ends seeding with the same activations and ends spreading
\* with the same trace and the same final activations, in whatever order the
\* priming set is iterated.
C13_SameRunForEveryPrimingOrder ==
    /\ pc = "seeded" =>
          \A order \in Orders(get_primed_concepts(_buffer)) :
              inject_activation(reset_activations(nodes), concept_ids, order, 0).nodes
                  = nodes
    /\ pc = "spread_done" =>
          \A order \in Orders(get_primed_concepts(_buffer)) :
              LET again == RunAgain(order)
              IN  /\ again.nodes = nodes
                  /\ again.trace = trace

\* spreading has ended in a turn that seeded nothing and primed both nodes
\* of the graph, a priming set with more than one iteration order
C13_Witness ==
    /\ pc = "spread_done"
    /\ concept_ids = <<>>
    /\ Cardinality(get_primed_concepts(_buffer) \cap NodeIdsOf(nodes)) = 2
    /\ Cardinality(Orders(get_primed_concepts(_buffer))) >= 2
    /\ \A i \in DOMAIN nodes : nodes[i].activation > nodes[i].base_activation
    /\ trace.node_activations # <<>>

\* the ids of seq that are nodes, in order
RECURSIVE ResolvedOnly(_)
ResolvedOnly(seq) ==
    IF seq = <<>> THEN <<>>
    ELSE (IF Head(seq) \in NodeIdsOf(nodes) THEN <<Head(seq)>> ELSE <<>>)
         \o ResolvedOnly(Tail(seq))

\* the response rules with the triggers that are no nodes left out
RulesOverNodes ==
    [i \in DOMAIN responses |->
        [responses[i] EXCEPT !.trigger_concepts = ResolvedOnly(@)]]

\* ids that are never a node; nothing mentions the second one
UnknownIds == {Ghost, "nobody"}

AboveThreshold == {nodes[i].id : i \in {j \in DOMAIN nodes : nodes[j].activation > 5000}}

\* C17: at the end of a turn trace.final_concepts is the ids of the nodes
\* whose activation is above 0.05 after the last spreading step, in ascending
\* id order, each once; the outcome_concepts of the episode stored for the
\* turn is that set.
C17_FinalConceptsAreTheActiveIds ==
    TurnDone =>
        /\ SeqToSet(trace.final_concepts) = AboveThreshold
        /\ Len(trace.final_concepts) = Cardinality(AboveThreshold)
        /\ \A i, j \in DOMAIN trace.final_concepts :
              i < j => IdLess(trace.final_concepts[i], trace.final_concepts[j])
        /\ stored[_turn].turn = _turn
        /\ stored[_turn].outcome_concepts = AboveThreshold
        /\ _episodes[Len(_episodes)] = stored[_turn]

\* the turn ended with both nodes above the threshold: the graph lists hello
\* before greeting, the trace lists greeting before hello
C17_Witness ==
    /\ TurnDone
    /\ nodes[1].id = "hello"
    /\ nodes[2].id = "greeting"
    /\ nodes[1].activation > ACTIVATION_THRESHOLD
    /\ nodes[2].activation > ACTIVATION_THRESHOLD
    /\ nodes[1].activation < ONE
    /\ trace.final_concepts = <<"greeting", "hello">>
    /\ stored[_turn].outcome_concepts = {"greeting", "hello"}

\* the active ids handed to the realizer are the ids above the threshold,
\* each once, in order of descending activation
ActiveIdsByDescendingActivation ==
    /\ SeqToSet(ret.active_concepts) = AboveThreshold
    /\ Len(ret.active_concepts) = Cardinality(AboveThreshold)
    /\ \A i, j \in DOMAIN ret.active_concepts :
          i < j => ActivationOf(nodes, ret.active_concepts[i])
                      >= ActivationOf(nodes, ret.active_concepts[j])

\* C18 as claimed: the active concept ids handed to the realizer are the
\* nodes above 0.05 in order of descending activation, and among nodes of
\* equal activation the smaller id comes first.
C18_TiesSmallerIdFirst ==
    TurnDone =>
        /\ ActiveIdsByDescendingActivation
        /\ \A i, j \in DOMAIN ret.active_concepts :
              (i < j /\ ActivationOf(nodes, ret.active_concepts[i])
                          = ActivationOf(nodes, ret.active_concepts[j]))
                 => IdLess(ret.active_concepts[i], ret.active_concepts[j])

\* C18: the active concept ids handed to the realizer are the nodes above
\* 0.05 in order of descending activation, and among nodes of equal
\* activation the larger id comes first.
C18_TiesLargerIdFirst ==
    TurnDone =>
        /\ ActiveIdsByDescendingActivation
        /\ \A i, j \in DOMAIN ret.active_concepts :
              (i < j /\ ActivationOf(nodes, ret.active_concepts[i])
                          = ActivationOf(nodes, ret.active_concepts[j]))
                 => IdLess(ret.active_concepts[j], ret.active_concepts[i])

\* the turn ended with hello and greeting at the same activation above the
\* threshold, and hello was handed over first
C18_Witness ==
    /\ TurnDone
    /\ ActivationOf(nodes, "hello") = ActivationOf(nodes, "greeting")
    /\ ActivationOf(nodes, "hello") > ACTIVATION_THRESHOLD
    /\ ret.active_concepts = <<"hello", "greeting">>

\* C20: every run_turn appends exactly one entry to the short-term memory
\* and one episode to the episodic store, both carrying the turn counter,
\* which goes up by 1 per turn from 1; the entry's active_concepts is the
\* list of recognized concept ids, the episode's context_concepts the set of
\* those ids, and its reinforcement is 0.0 and stays so.
C20_OneEntryAndOneEpisodePerTurn ==
    /\ Len(added) = (IF pc = "idle" THEN _turn ELSE _turn - 1)
    /\ Len(stored) = Len(added)
    /\ \A k \in DOMAIN added : added[k].turn_number = k /\ stored[k].turn = k
    /\ _buffer = LastOf(added, _capacity)
    /\ _episodes = LastOf(stored, _max)
    /\ \A i \in DOMAIN _episodes : _episodes[i].reinforcement = 0
    /\ TurnDone =>
          /\ _buffer[Len(_buffer)].turn_number = _turn
          /\ _buffer[Len(_buffer)].active_concepts = concept_ids
          /\ _buffer[Len(_buffer)].input_text = arg
          /\ _buffer[Len(_buffer)].response_text = ret.response_text
          /\ _episodes[Len(_episodes)].turn = _turn
          /\ _episodes[Len(_episodes)].context_concepts = SeqToSet(concept_ids)
          /\ _episodes[Len(_episodes)].reinforcement = 0

\* the third turn is over; it recognized greeting and an id that is no
\* node, and the memories hold its entry and its episode behind those of
\* the second turn
C20_Witness ==
    /\ TurnDone
    /\ _turn = 3
    /\ concept_ids = <<"greeting", Ghost>>
    /\ Len(_buffer) >= 2
    /\ Len(_episodes) >= 2
    /\ _buffer[Len(_buffer)].turn_number = 3
    /\ _buffer[Len(_buffer) - 1].turn_number = 2
    /\ _episodes[Len(_episodes)].context_concepts = {"greeting", Ghost}
    /\ _episodes[Len(_episodes) - 1].turn = 2
    /\ _episodes[Len(_episodes) - 1].reinforcement = 0

\* the graph has a cycle through hello and greeting
Cyclic ==
    /\ \E i \in DOMAIN edges : edges[i].source = "hello" /\ edges[i].target = "greeting"
    /\ \E i \in DOMAIN edges : edges[i].source = "greeting" /\ edges[i].target = "hello"

\* the recognized concept ids of the turn that are nodes
SeededCount ==
    Cardinality({i \in DOMAIN concept_ids : concept_ids[i] \in NodeIdsOf(nodes)})

\* C22: the counters of a turn describe that turn only: they are zero when
\* seeding starts; nodes seeded is the number of recognized concept ids that
\* are nodes; once spreading is over, steps executed is 3 on every graph,
\* cyclic ones included, and edges traversed is the number of edge records
\* in the turn's trace.
C22_CountersDescribeTheTurn ==
    /\ pc = "reset" => profiler = NewProfiler
    /\ pc = "seeded" =>
          profiler = [activated_nodes |-> SeededCount, traversed_edges |-> 0,
                      steps_executed |-> 0]
    /\ (pc = "spread_done" \/ TurnDone) =>
          /\ profiler.steps_executed = 3
          /\ profiler.traversed_edges = Len(trace.edge_traversals)
          /\ profiler.activated_nodes = SeededCount

\* the second turn on a cyclic graph is over; both turns seeded a node and
\* traversed edges, and the counters show the second turn alone
C22_Witness ==
    /\ TurnDone
    /\ _turn = 2
    /\ Cyclic
    /\ added[1].active_concepts = <<"hello", "greeting">>
    /\ concept_ids = <<"greeting", Ghost>>
    /\ profiler.activated_nodes = 1
    /\ profiler.steps_executed = 3
    /\ profiler.traversed_edges = 6
    /\ Len(trace.edge_traversals) = 6

\* the recognized concept ids of the turns max(1, t - C) .. t - 1
PrimedForTurn(t) ==
    UNION {SeqToSet(added[k].active_concepts) :
              k \in {j \in DOMAIN added : j >= t - _capacity /\ j >= 1 /\ j <= t - 1}}

\* C24: the priming of turn t uses only turns completed before t: the primed
\* set is the union of the recognized concept ids of turns max(1, t - C) ..
\* t - 1 (C the capacity of the short-term memory); the entry of turn t is
\* added to the buffer only after the response of turn t was selected; so a
\* concept recognized only in turn t primes turns t + 1 .. t + C and not
\* turn t + C + 1.
C24_PrimingUsesCompletedTurns ==
    /\ pc \in {"reset", "seeded", "spread_done"} =>
          /\ \A i \in DOMAIN _buffer : _buffer[i].turn_number < _turn
          /\ get_primed_concepts(_buffer) = PrimedForTurn(_turn)
    /\ TurnDone => _buffer[Len(_buffer)].turn_number = _turn
    /\ pc = "seeded" =>
          \A i \in DOMAIN nodes :
              LET n == nodes[i]
                  a == n.base_activation
              IN  n.activation =
                      IF n.id \in SeqToSet(concept_ids) THEN ONE
                      ELSE IF n.id \in PrimedForTurn(_turn) /\ a < ONE
                           THEN Min2(ONE, a + PRIMING_BOOST)
                      ELSE a

\* a memory of capacity 1: hello was recognized in turn 1 only; turn 2,
\* which recognized nothing, ended with hello above the threshold; turn 3
\* has seeded and primed, and hello is at its rest value 0
C24_Witness ==
    /\ pc = "seeded"
    /\ _turn = 3
    /\ _capacity = 1
    /\ added[1].active_concepts = <<"hello">>
    /\ added[2].active_concepts = <<>>
    /\ "hello" \in stored[2].outcome_concepts
    /\ concept_ids = <<>>
    /\ get_node(nodes, "hello").base_activation = 0
    /\ get_node(nodes, "hello").activation = 0

\* activations an earlier turn may have left on a node
LeftoverValues == {5000, ONE}

\* the graph's nodes with every choice of left-over activations
Leftovers ==
    {[i \in DOMAIN nodes |-> [nodes[i] EXCEPT !.activation = f[i]]] :
        f \in [DOMAIN nodes -> LeftoverValues]}

\* the turn as a second engine runs it: same graph, rules, recognized ids,
\* primed set and modulators, but the node activations ns left by other
\* turns; the result is the final nodes, the trace and the chosen rule
SecondEngineTurn(ns) ==
    LET order == CHOOSE o \in Orders(PrimedForTurn(_turn)) : TRUE
        seeded == inject_activation(reset_activations(ns), concept_ids, order, 0)
        spread == spread_activation(seeded.nodes, adjacency, NewTrace, NewProfiler,
                                    RUN_STEPS, RUN_DECAY, modulators)
        rule == select_response(spread.nodes, responses)
    IN  [nodes |-> spread.nodes,
         trace |-> [spread.trace EXCEPT
                       !.response_intent = rule.intent,
                       !.final_concepts = SortIds(<<>>, ActiveIds(spread.nodes))],
         rule |-> rule]

\* C25: the outcome of a turn (final activations, trace, chosen rule) is a
\* function of the graph's base activations, edges and rules, the turn's
\* recognized concept ids, the short-term memory and the modulator table
\* only: an engine that differs from this one only in the activations left
\* over from earlier turns ends the same turn with the same outcome.
C25_OutcomeIgnoresLeftoverActivations ==
    TurnDone =>
        \A ns \in Leftovers :
            LET second == SecondEngineTurn(ns)
            IN  /\ second.nodes = nodes
                /\ second.trace = trace
                /\ second.rule.intent = ret.intent

\* the second turn is over; the first left hello and greeting above the
\* threshold, the second seeded hello and emitted
C25_Witness ==
    /\ TurnDone
    /\ _turn = 2
    /\ stored[1].outcome_concepts = {"hello", "greeting"}
    /\ \A i \in DOMAIN nodes : nodes[i].base_activation = 0
    /\ concept_ids = <<"hello">>
    /\ trace.edge_traversals # <<>>
    /\ Cardinality(Leftovers) = 4

\* what a turn may not write of a node list: the ids and the rest values,
\* in graph order
NodeFrame(ns) == [i \in DOMAIN ns |-> <<ns[i].id, ns[i].base_activation>>]

\* C26: run_turn changes only node activations, the two memories, the turn
\* counter and the per-turn counters: no step of any turn changes the node
\* id set, a node's base_activation, the edge list, the adjacency index,
\* the response rule list (the fallback rule is never added to it) or the
\* modulator table.
C26_TurnsLeaveTheGraphAlone ==
    [][ /\ NodeFrame(nodes') = NodeFrame(nodes)
        /\ edges' = edges
        /\ adjacency' = adjacency
        /\ responses' = responses
        /\ modulators' = modulators ]_vars

\* the first turn answered with the fallback rule; the second recognized
\* greeting and an id that is no node, traversed edges and is over; the
\* graph is the one that was loaded
C26_Witness ==
    /\ TurnDone
    /\ _turn = 2
    /\ added[1].response_text = FALLBACK
    /\ concept_ids = <<"greeting", Ghost>>
    /\ trace.edge_traversals # <<>>
    /\ \E i \in DOMAIN nodes : nodes[i].activation # nodes[i].base_activation
    /\ NodeIdsOf(nodes) = {"hello", "greeting"}
    /\ edges \in TurnEdgeFiles
    /\ responses = TurnRules
    /\ \A i \in DOMAIN responses : responses[i].id # "r_fallback"

----------------------------------------------------------------------------
(* Properties of graph construction (SpecGraph) *)

\* the edges handed to add_edge so far, in call order
RECURSIVE InsertedEdges(_)
InsertedEdges(cs) ==
    IF cs = <<>> THEN <<>>
    ELSE (IF Head(cs).op = "add_edge" THEN <<Head(cs).item>> ELSE <<>>)
         \o InsertedEdges(Tail(cs))

\* the edges of es that leave src, in order
RECURSIVE LeavingFrom(_, _)
LeavingFrom(es, src) ==
    IF es = <<>> THEN <<>>
    ELSE (IF Head(es).source = src THEN <<Head(es)>> ELSE <<>>)
         \o LeavingFrom(Tail(es), src)

\* the add_node call at position i of calls is for the id
IsAddNodeOf(i, id) == calls[i].op = "add_node" /\ calls[i].item.id = id

IsAddEdgeFrom(i, id) == calls[i].op = "add_edge" /\ calls[i].item.source = id

\* C15: after any sequence of add_node and add_edge calls, edges added before
\* their source node exists and nodes re-added included, the edge list is
\* the inserted edges, once each, in insertion order; the adjacency list of
\* an id is the inserted edges leaving that id, once each, in insertion
\* order, and every inserted edge has such a list under its source; every
\* node id has an adjacency entry.
C15_EdgesOnceAndEveryNodeListed ==
    /\ edges = InsertedEdges(calls)
    /\ \A src \in DOMAIN adjacency :
          adjacency[src] = LeavingFrom(InsertedEdges(calls), src)
    /\ \A i \in DOMAIN calls :
          calls[i].op = "add_edge" => calls[i].item.source \in DOMAIN adjacency
    /\ \A i \in DOMAIN nodes : nodes[i].id \in DOMAIN adjacency

\* an edge from hello was added, then the node hello, then another edge
\* from hello, then the node hello again: both edges are listed under hello
C15_Witness ==
    /\ \E i, j, k, l \in DOMAIN calls :
          /\ i < j /\ j < k /\ k < l
          /\ IsAddEdgeFrom(i, "hello")
          /\ IsAddNodeOf(j, "hello")
          /\ IsAddEdgeFrom(k, "hello")
          /\ IsAddNodeOf(l, "hello")
          /\ calls[i].item # calls[k].item
    /\ Len(adjacency["hello"]) = 2
    /\ Len(nodes) = 1

\* C19: add_node with an id that is already a node puts the new node (label,
\* type, base_activation, activation) in the place of the stored one and
\* leaves the edge list, every adjacency list and every other node as they
\* were.
C19_ReAddReplacesNodeOnly ==
    [][ (pc' = "add_node" /\ Len(calls') = Len(calls) + 1 /\ Resolves(nodes, arg'.id)) =>
            /\ edges' = edges
            /\ adjacency' = adjacency
            /\ Len(nodes') = Len(nodes)
            /\ \A i \in DOMAIN nodes :
                  nodes'[i] = IF nodes[i].id = arg'.id THEN arg' ELSE nodes[i] ]_vars

\* hello was added, got an outgoing edge, and was added again with another
\* label, type, base_activation and activation, next to the node greeting
C19_Witness ==
    /\ pc = "add_node"
    /\ arg.id = "hello"
    /\ \E j \in 1..(Len(calls) - 1) :
          /\ IsAddNodeOf(j, "hello")
          /\ calls[j].item.label # arg.label
          /\ calls[j].item.type # arg.type
          /\ calls[j].item.base_activation # arg.base_activation
          /\ calls[j].item.activation # arg.activation
    /\ get_node(nodes, "hello") = arg
    /\ Resolves(nodes, "greeting")
    /\ adjacency["hello"] # <<>>

====
